---- MODULE Spec2Model ----
(***************************************************************************)
(* Model of the coordinator (package coordinator, CoordinatorImpl).        *)
(*                                                                         *)
(* Query path: RunQuery dispatches the statements of a parsed query;       *)
(* runQuerySpec fans shard queries out, one producer task per started      *)
(* shard, each with its own bounded response channel, and reads the        *)
(* channels in list order; runListSeriesQuery queries the shards one       *)
(* after the other.  An action is the code one task runs between two       *)
(* blocking channel operations.                                            *)
(*                                                                         *)
(* Write path: WriteSeriesData -> CommitSeriesData -> write, followed by   *)
(* ProcessContinuousQueries.  The write path has no concurrency: one       *)
(* action is one call.                                                     *)
(***************************************************************************)
EXTENDS Integers, Sequences, FiniteSets, TLC

(***************************************************************************)
(* Bounds of the model.                                                    *)
(***************************************************************************)
\* the catalog selects at most this many shards for one statement
MaxShards == 3
\* configuration.ConcurrentShardQueryLimit ranges over 1..MaxLimit
MaxLimit == 2
\* a parsed query string holds at most this many statements
MaxStmts == 2
\* shard.QueryResponseBufferSize ranges over 1..MaxBuf
MaxBuf == 1

\* a written series holds at most this many points
MaxPoints == 3
\* timestamps range over -MaxTime..MaxTime
MaxTime == 1
\* the continuous-query table of a database holds at most this many queries
MaxCQs == 1
\* a FROM clause holds at most this many entries
MaxFrom == 2
\* the commit of the continuous-query stage that fails is one of its first
\* MaxFail commits
MaxFail == 1

(***************************************************************************)
(* Program constants.                                                      *)
(***************************************************************************)
SHARDS_TO_QUERY_FOR_LIST_SERIES == 10

\* protocol.Response types the coordinator tells apart
endStreamResponse == "END_STREAM"
accessDeniedResponse == "ACCESS_DENIED"
queryResponse == "QUERY"
explainQueryResponse == "EXPLAIN_QUERY"

\* series names a list-series response may carry
ListNames == {1, 2}

\* the shards the catalog routes writes to (0 stands for a nil shard)
ShardIds == {1, 2}

TimeDomain == (0 - MaxTime)..MaxTime

VARIABLES
  \* ---- RunQuery ----
  qpc,            \* position of the RunQuery call
  stmts,          \* number of statements of the parsed query not yet dispatched
  user,           \* what the calling user has answered so far, per capability
  closeCount,     \* number of Close calls the caller's sink has received
  ret,            \* what RunQuery returned ("pending" while it runs)
  retMsg,         \* shard whose error message the returned error carries, or 0
  panicked,       \* a panic was recovered by recoverFunc
  config,         \* configuration.ConcurrentShardQueryLimit
  \* ---- runQuerySpec / runListSeriesQuery (locals of the running call) ----
  kind,           \* kind of the statement being run
  shards,         \* the selected shards: what ShouldAggregateLocally answered
  processor,      \* "none", "engine", "limit" or "passthrough"
  explain,        \* querySpec.IsExplainQuery()
  limited,        \* selectQuery.Limit > 0, when getShardsAndProcessor read it
  limit,          \* shardConcurrentLimit
  bufSize,        \* capacity of each shard's response channel
  responses,      \* per shard: the content of its response channel
  nextIndex,      \* number of shard queries started (index of the next one)
  cur,            \* shard the consumer loop reads (1-based)
  shouldContinue, \* result of the most recent processor.YieldSeries
  err,            \* "nil", "InvalidArgument" or "EngineError"
  errMsg,         \* shard whose ErrorMessage err carries, or 0
  finished,       \* per shard: its producer has sent the terminal response
  closer,         \* position of the task that closes the sink for a processor
  seriesYielded,  \* runListSeriesQuery: series names already written
  \* ---- history of the running call ----
  consumed,       \* shards whose terminal response the consumer has read
  termErrs,       \* the consumed terminals that carried an error message, in order
  forwarded,      \* shards of which the consumer has passed a series on
  lastForwarded,  \* shard of the series passed on most recently, or 0
  lastYield,      \* "none", or the result of the most recent YieldSeries
  \* ---- WriteSeriesData ----
  wpc,            \* position of the WriteSeriesData call
  wret,           \* what WriteSeriesData returned ("pending" while it runs)
  written,        \* the points of the series as the caller passed them
  now,            \* common.CurrentTime() of the primary commit
  catalog,        \* GetShardToWriteToBySeriesAndTime, by timestamp
  points,         \* series.Points of the caller's series
  requests,       \* the shard Write requests of the primary commit, in order
  fault,          \* what failed first in the commit: "none", "lookup", "write"
  cqRan,          \* ProcessContinuousQueries was called
  cqCommits,      \* the commits of the continuous-query stage, in order
  queries,        \* ParsedContinuousQueries[db] as the stage read it
  \* ---- administrative operations ----
  apc,            \* position of the administrative call
  aop,            \* the operation called
  areq,           \* its arguments: database name and user name
  aret,           \* what it returned ("pending" while it runs)
  acalls,         \* the Consensus, catalog and shard calls it made, in order
  drops,          \* DropDatabase: per shard, the state of its goroutine
  \* ---- InterpolateValuesAndCommit ----
  ipc,            \* position of the InterpolateValuesAndCommit call
  iargs,          \* its arguments
  icommits,       \* the series it handed to CommitSeriesData, in order
  \* ---- the response pipeline of runQuerySpec, response by response ----
  ppc,            \* position of the consumer loop
  pspec,          \* the processor and querySpec.IsExplainQuery() of the call
  received,       \* the non-terminal responses read from the channel, in order
  sinkWrites      \* the responses whose series the loop wrote to the sink

qvars == <<qpc, stmts, user, closeCount, ret, retMsg, panicked, config, kind,
           shards, processor, explain, limited, limit, bufSize, responses, nextIndex,
           cur, shouldContinue, err, errMsg, finished, closer,
           seriesYielded, consumed, termErrs, forwarded, lastForwarded,
           lastYield>>

wvars == <<wpc, wret, written, now, catalog, points, requests, fault, cqRan,
           cqCommits, queries>>

avars == <<apc, aop, areq, aret, acalls, drops>>

ivars == <<ipc, iargs, icommits>>

pvars == <<ppc, pspec, received, sinkWrites>>

vars == <<qvars, wvars, avars, ivars, pvars>>

----------------------------------------------------------------------------
(***************************************************************************)
(* Helpers.                                                                *)
(***************************************************************************)
Min(a, b) == IF a < b THEN a ELSE b

\* all sequences over S of length at most n
SeqsUpTo(S, n) == UNION {[1..k -> S] : k \in 0..n}

NumShards == Len(shards)

Response(t, pts, e, multi) == [type |-> t, pts |-> pts, err |-> e, multi |-> multi]

IsTerminal(r) == r.type = endStreamResponse \/ r.type = accessDeniedResponse

\* responses[i] != nil: the query of shard i has been started
Started(i) == i >= 1 /\ i <= NumShards /\ i <= nextIndex

Take(s, n) == SubSeq(s, 1, Min(Len(s), n))

(***************************************************************************)
(* common.User: IsClusterAdmin(), IsDbAdmin(db), HasWriteAccess(name).     *)
(* The answers of one user are fixed for a call; each is drawn the first   *)
(* time the code asks and remembered from then on.                         *)
(***************************************************************************)
NoAnswers ==
  [clusterAdmin |-> "unasked", dbAdmin |-> "unasked", writeAccess |-> "unasked",
   writeAccessDb |-> "unasked"]

\* the states of user u once capability f has been asked
Answers(u, f) ==
  IF u[f] = "unasked"
    THEN {[u EXCEPT ![f] = "yes"], [u EXCEPT ![f] = "no"]}
    ELSE {u}

RECURSIVE CheckAny(_, _)
\* the outcomes of asking the capabilities fs in turn until one is granted
\* (Go's short-circuit evaluation of !a && !b && !c)
CheckAny(u, fs) ==
  IF fs = <<>> THEN {[user |-> u, ok |-> FALSE]}
  ELSE UNION {IF v[Head(fs)] = "yes"
                THEN {[user |-> v, ok |-> TRUE]}
                ELSE CheckAny(v, Tail(fs)) : v \in Answers(u, Head(fs))}

----------------------------------------------------------------------------
(***************************************************************************)
(* getShardsAndProcessor and the concurrency limit.                        *)
(***************************************************************************)
\* The lists of n shards as shouldAggregateLocally leaves them: it asks the
\* shards in list order and returns at the first that answers false, so the
\* shards after that one are never asked.
ShardLists(n) ==
  {[i \in 1..n |-> IF i < k THEN "yes" ELSE IF i = k THEN "no" ELSE "unasked"] :
     k \in 1..(n + 1)}

RECURSIVE shouldAggregateLocally(_)
\* false at the first shard whose ShouldAggregateLocally is false, else true
shouldAggregateLocally(ss) ==
  IF ss = <<>> THEN TRUE
  ELSE IF Head(ss) # "yes" THEN FALSE
  ELSE shouldAggregateLocally(Tail(ss))

shouldQuerySequentially(ss) == ~shouldAggregateLocally(ss)

\* a choice that knows no limit-aware passthrough
UnlimitedProcessor(isSelect, ss, hasLimit) ==
  IF isSelect /\ ~shouldAggregateLocally(ss) THEN "engine"
  ELSE IF ~shouldAggregateLocally(ss) THEN "passthrough"
  ELSE "none"

\* a choice that gives a processor to selects only
SelectProcessor(isSelect, ss, hasLimit) ==
  IF isSelect /\ ~shouldAggregateLocally(ss) THEN "engine"
  ELSE IF isSelect /\ hasLimit THEN "limit"
  ELSE "none"

\* the processor getShardsAndProcessor picks ("engine" may fail to build)
getShardsAndProcessor(isSelect, ss, hasLimit) ==
  IF isSelect /\ ~shouldAggregateLocally(ss) THEN "engine"
  ELSE IF isSelect /\ hasLimit THEN "limit"
  ELSE IF ~shouldAggregateLocally(ss) THEN "passthrough"
  ELSE "none"

\* a limit that leaves out the clamp of sequential queries
ConfiguredLimit(ss) == config

\* shardConcurrentLimit of runQuerySpec
shardConcurrentLimit(ss) == IF shouldQuerySequentially(ss) THEN 1 ELSE config

\* what runQuerySpec does once its consumer loop is over: with a processor it
\* calls processor.Close() and waits for seriesClosed, else it closes the sink
AfterLoopPc(proc) == IF proc # "none" THEN "closing" ELSE "specReturned"
AfterLoopClose(proc) == IF proc # "none" THEN closeCount ELSE closeCount + 1

(***************************************************************************)
(* The responses a shard may send, by statement kind.                      *)
(***************************************************************************)
NonTerminals(k) ==
  IF k = "listseries"
  THEN {Response(queryResponse, 0, FALSE, m) : m \in SeqsUpTo(ListNames, 1)}
  ELSE {Response(queryResponse, 1, FALSE, <<>>),
        Response(queryResponse, 0, FALSE, <<>>),
        Response(explainQueryResponse, 1, FALSE, <<>>)}

Terminals ==
  {Response(endStreamResponse, 0, FALSE, <<>>),
   Response(endStreamResponse, 0, TRUE, <<>>),
   Response(accessDeniedResponse, 0, TRUE, <<>>)}

----------------------------------------------------------------------------
Init ==
  /\ qpc = "idle"
  /\ stmts = 0
  /\ user = NoAnswers
  /\ closeCount = 0
  /\ ret = "pending"
  /\ retMsg = 0
  /\ panicked = FALSE
  /\ config \in 1..MaxLimit
  /\ kind = "none"
  /\ shards = <<>>
  /\ processor = "none"
  /\ explain = FALSE
  /\ limited = FALSE
  /\ limit = 0
  /\ bufSize = 1
  /\ responses = <<>>
  /\ nextIndex = 0
  /\ cur = 0
  /\ shouldContinue = FALSE
  /\ err = "nil"
  /\ errMsg = 0
  /\ finished = <<>>
  /\ closer = "none"
  /\ seriesYielded = {}
  /\ consumed = {}
  /\ termErrs = <<>>
  /\ forwarded = {}
  /\ lastForwarded = 0
  /\ lastYield = "none"
  /\ wpc = "idle"
  /\ wret = "pending"
  /\ written = <<>>
  /\ now = 0
  /\ catalog = [t \in TimeDomain |-> 1]
  /\ points = <<>>
  /\ requests = <<>>
  /\ fault = "none"
  /\ cqRan = FALSE
  /\ cqCommits = <<>>
  /\ queries = <<>>
  /\ apc = "idle"
  /\ aop = "none"
  /\ areq = [db |-> <<>>, username |-> <<>>]
  /\ aret = "pending"
  /\ acalls = <<>>
  /\ drops = <<>>
  /\ ipc = "idle"
  /\ iargs = <<>>
  /\ icommits = <<>>
  /\ ppc = "idle"
  /\ pspec = [processor |-> "none", explain |-> FALSE]
  /\ received = <<>>
  /\ sinkWrites = <<>>

callVars == <<kind, shards, processor, explain, limited, limit, bufSize, responses,
              nextIndex, cur, shouldContinue, err, errMsg, finished,
              closer, seriesYielded, consumed, termErrs, forwarded,
              lastForwarded, lastYield>>

\* the locals of runQuerySpec and runListSeriesQuery before a call
NoCall ==
  /\ kind' = "none"
  /\ shards' = <<>>
  /\ processor' = "none"
  /\ explain' = FALSE
  /\ limited' = FALSE
  /\ limit' = 0
  /\ bufSize' = 1
  /\ responses' = <<>>
  /\ nextIndex' = 0
  /\ cur' = 0
  /\ shouldContinue' = FALSE
  /\ err' = "nil"
  /\ errMsg' = 0
  /\ finished' = <<>>
  /\ closer' = "none"
  /\ seriesYielded' = {}
  /\ consumed' = {}
  /\ termErrs' = <<>>
  /\ forwarded' = {}
  /\ lastForwarded' = 0
  /\ lastYield' = "none"

\* RunQuery returns e
Return(e, m) ==
  /\ qpc' = "returned"
  /\ ret' = e
  /\ retMsg' = m

\* RunQuery goes on with the statement after the current one
Continue ==
  /\ qpc' = "loop"
  /\ stmts' = stmts - 1
  /\ UNCHANGED <<ret, retMsg>>

(***************************************************************************)
(* RunQuery, up to the statement loop: parse the query string.             *)
(***************************************************************************)
RunQuery ==
  /\ UNCHANGED <<wvars, avars, ivars, pvars>>
  /\ qpc = "idle"
  /\ user' = NoAnswers
  /\ \E parseOk \in BOOLEAN, q \in 0..MaxStmts :
       /\ IF parseOk
            THEN /\ qpc' = "loop"
                 /\ stmts' = q
                 /\ UNCHANGED <<ret, retMsg>>
            ELSE /\ Return("ParseError", 0)
                 /\ UNCHANGED stmts
  /\ UNCHANGED <<closeCount, panicked, config, callVars>>

\* the statement loop is over: seriesWriter.Close(); return nil
RunQueryEnd ==
  /\ UNCHANGED <<wvars, avars, ivars, pvars>>
  /\ qpc = "loop"
  /\ stmts = 0
  /\ closeCount' = closeCount + 1
  /\ Return("nil", 0)
  /\ UNCHANGED <<stmts, user, panicked, config, callVars>>

(***************************************************************************)
(* runQuerySpec up to its first blocking receive: getShardsAndProcessor,   *)
(* the concurrency limit, the start of the first shard queries.            *)
(***************************************************************************)
runQuerySpec(k) ==
  \E n \in 0..MaxShards, hasLimit \in BOOLEAN, expl \in BOOLEAN,
     engineFails \in BOOLEAN, buf \in 1..MaxBuf :
  \E ss \in ShardLists(n) :
    LET isSelect == k = "select"
        proc == getShardsAndProcessor(isSelect, ss, hasLimit)
    IN /\ isSelect \/ (~hasLimit /\ ~expl)
       \* selectQuery.Limit is read only once the first branch was not taken
       /\ (isSelect /\ shouldAggregateLocally(ss)) \/ ~hasLimit
       \* the consumer loop reads IsExplainQuery() only without a processor
       /\ proc = "none" \/ ~expl
       /\ proc = "engine" \/ ~engineFails
       /\ kind' = k
       /\ shards' = ss
       /\ explain' = expl
       /\ limited' = hasLimit
       /\ bufSize' = buf
       /\ errMsg' = 0
       /\ seriesYielded' = {}
       /\ consumed' = {}
       /\ termErrs' = <<>>
       /\ forwarded' = {}
       /\ lastForwarded' = 0
       /\ lastYield' = "none"
       /\ shouldContinue' = FALSE
       /\ cur' = 1
       /\ responses' = [i \in 1..n |-> <<>>]
       /\ finished' = [i \in 1..n |-> FALSE]
       /\ UNCHANGED <<stmts, ret, retMsg, panicked, config>>
       /\ IF engineFails
            THEN \* NewQueryEngine failed: return nil, nil, nil, err
                 /\ err' = "EngineError"
                 /\ processor' = "none"
                 /\ closer' = "none"
                 /\ limit' = 0
                 /\ nextIndex' = 0
                 /\ qpc' = "specReturned"
                 /\ UNCHANGED closeCount
            ELSE /\ err' = "nil"
                 /\ processor' = proc
                 /\ closer' = IF proc # "none" THEN "waiting" ELSE "none"
                 /\ limit' = shardConcurrentLimit(ss)
                 /\ nextIndex' = shardConcurrentLimit(ss)
                 /\ IF n = 0
                      THEN /\ qpc' = AfterLoopPc(proc)
                           /\ closeCount' = AfterLoopClose(proc)
                      ELSE /\ qpc' = "read"
                           /\ UNCHANGED closeCount

\* "delete": runDeleteQuery
runDeleteQuery ==
  /\ UNCHANGED <<wvars, avars, ivars, pvars>>
  /\ qpc = "loop"
  /\ stmts > 0
  /\ \E a \in CheckAny(user, <<"dbAdmin">>) :
       /\ user' = a.user
       /\ IF ~a.ok
            THEN /\ Return("AuthorizationError", 0)
                 /\ UNCHANGED <<stmts, closeCount, panicked, config, callVars>>
            ELSE runQuerySpec("delete")

\* "drop series": runDropSeriesQuery
runDropSeriesQuery ==
  /\ UNCHANGED <<wvars, avars, ivars, pvars>>
  /\ qpc = "loop"
  /\ stmts > 0
  /\ \E a \in CheckAny(user, <<"clusterAdmin", "dbAdmin", "writeAccess">>) :
       /\ user' = a.user
       /\ IF ~a.ok
            THEN /\ Return("AuthorizationError", 0)
                 /\ UNCHANGED <<stmts, closeCount, panicked, config, callVars>>
            ELSE runQuerySpec("dropseries")

\* a select that is no continuous query: return self.runQuery(...)
runQuery ==
  /\ UNCHANGED <<wvars, avars, ivars, pvars>>
  /\ qpc = "loop"
  /\ stmts > 0
  /\ UNCHANGED user
  /\ runQuerySpec("select")

\* "drop continuous query": DeleteContinuousQuery
DeleteContinuousQuery ==
  /\ UNCHANGED <<wvars, avars, ivars, pvars>>
  /\ qpc = "loop"
  /\ stmts > 0
  /\ \E raftOk \in BOOLEAN, a \in CheckAny(user, <<"clusterAdmin", "dbAdmin">>) :
       /\ user' = a.user
       /\ IF ~a.ok
            THEN Return("AuthorizationError", 0) /\ UNCHANGED stmts
            ELSE IF ~raftOk
              THEN Return("UpstreamError", 0) /\ UNCHANGED stmts
              ELSE Continue
  /\ UNCHANGED <<closeCount, panicked, config, callVars>>

\* a select that is a continuous query: return self.CreateContinuousQuery(...)
CreateContinuousQuery ==
  /\ UNCHANGED <<wvars, avars, ivars, pvars>>
  /\ qpc = "loop"
  /\ stmts > 0
  /\ \E raftOk \in BOOLEAN, a \in CheckAny(user, <<"clusterAdmin", "dbAdmin">>) :
       /\ user' = a.user
       /\ IF ~a.ok
            THEN Return("AuthorizationError", 0)
            ELSE IF ~raftOk
              THEN Return("UpstreamError", 0)
              ELSE Return("nil", 0)
  /\ UNCHANGED <<stmts, closeCount, panicked, config, callVars>>

\* "list continuous queries": ListContinuousQueries, then one sink Write
ListContinuousQueries ==
  /\ UNCHANGED <<wvars, avars, ivars, pvars>>
  /\ qpc = "loop"
  /\ stmts > 0
  /\ \E writeOk \in BOOLEAN, a \in CheckAny(user, <<"clusterAdmin", "dbAdmin">>) :
       /\ user' = a.user
       /\ IF ~a.ok
            THEN Return("AuthorizationError", 0) /\ UNCHANGED stmts
            ELSE IF ~writeOk
              THEN Return("SinkError", 0) /\ UNCHANGED stmts
              ELSE Continue
  /\ UNCHANGED <<closeCount, panicked, config, callVars>>

(***************************************************************************)
(* shard.Query: the producer task of a started shard sends one response    *)
(* into its channel, blocking while the channel is full.                   *)
(***************************************************************************)
ShardQuery ==
  /\ UNCHANGED <<wvars, avars, ivars, pvars>>
  /\ qpc \in {"read", "list"}
  /\ \E i \in 1..NumShards :
       /\ Started(i)
       /\ ~finished[i]
       /\ Len(responses[i]) < bufSize
       /\ \E terminal \in BOOLEAN :
            /\ responses' = [responses EXCEPT ![i] = Append(@, terminal)]
            /\ finished' = [finished EXCEPT ![i] = terminal]
  /\ UNCHANGED <<qpc, stmts, user, closeCount, ret, retMsg, panicked, config,
                 kind, shards, processor, explain, limited, limit, bufSize, nextIndex,
                 cur, shouldContinue, err, errMsg, closer, seriesYielded,
                 consumed, termErrs, forwarded, lastForwarded, lastYield>>

(***************************************************************************)
(* The consumer loop of runQuerySpec.                                      *)
(***************************************************************************)
\* a consumer that receives from whichever started shard has a response
ReadsAny(i) == Started(i) /\ i \notin consumed

\* the channel the consumer receives from: that of the shard at the loop index
Reads(i) == i = cur

\* a terminal branch that lets a later message replace the error
RecordsLastError(r) == r.err

\* the terminal branch: whether the response's message becomes the call's error
RecordsError(r) == r.err /\ err = "nil"

\* a terminal branch that queries the next shard whatever the sink said
StartsNextAlways == nextIndex < NumShards

\* the terminal branch: whether the next unstarted shard is queried
StartsNext == nextIndex < NumShards /\ shouldContinue

\* a loop over the channels that has no check for a nil channel
MoreInList(i, ni) == i + 1 <= NumShards

\* for i, responseChan := range responses, with the break at the first nil
\* channel: whether the loop goes on to a channel after that of shard i,
\* ni shard queries having been started
MoreToRead(i, ni) == i + 1 <= NumShards /\ i + 1 <= ni

\* the response read is END_STREAM or ACCESS_DENIED
ReadTerminal ==
  /\ UNCHANGED <<wvars, avars, ivars, pvars>>
  /\ qpc = "read"
  /\ \E i \in 1..NumShards, r \in Terminals :
     LET ni == IF StartsNext THEN nextIndex + 1 ELSE nextIndex
         more == MoreToRead(i, ni)
     IN /\ Reads(i)
        /\ Started(i)
        /\ responses[i] # <<>>
        /\ Head(responses[i])
        /\ responses' = [responses EXCEPT ![i] = Tail(@)]
        /\ IF RecordsError(r)
             THEN err' = "InvalidArgument" /\ errMsg' = i
             ELSE UNCHANGED <<err, errMsg>>
        /\ termErrs' = IF r.err THEN Append(termErrs, i) ELSE termErrs
        /\ nextIndex' = ni
        /\ consumed' = consumed \cup {i}
        /\ cur' = i + 1
        /\ IF more
             THEN UNCHANGED <<qpc, closeCount>>
             ELSE /\ qpc' = AfterLoopPc(processor)
                  /\ closeCount' = AfterLoopClose(processor)
  /\ UNCHANGED <<stmts, user, ret, retMsg, panicked, config, kind, shards,
                 processor, explain, limited, limit, bufSize, shouldContinue,
                 finished, closer, seriesYielded, forwarded, lastForwarded,
                 lastYield>>

\* a series of shard i is passed on, to the processor or to the sink
Forward(i) ==
  /\ forwarded' = forwarded \cup {i}
  /\ lastForwarded' = i

\* response.Series == nil || len(response.Series.Points) == 0 (pts is -1
\* for a response without series)
NoPoints(r) == r.pts <= 0

\* a loop that writes every series with points when there is no processor
WritesAll(r, proc, expl) == ~NoPoints(r) /\ proc = "none"

\* the loop body after the terminal branch: whether it calls
\* seriesWriter.Write(response.Series)
SinkWrites(r, proc, expl) ==
  /\ ~NoPoints(r)
  /\ proc = "none"
  /\ ~(r.type = queryResponse /\ expl)

\* the response read is not terminal
ReadSeries ==
  /\ UNCHANGED <<wvars, avars, ivars, pvars>>
  /\ qpc = "read"
  /\ \E i \in 1..NumShards, r \in NonTerminals(kind) :
        /\ Reads(i)
        /\ Started(i)
        /\ responses[i] # <<>>
        /\ ~Head(responses[i])
        /\ responses' = [responses EXCEPT ![i] = Tail(@)]
        /\ IF NoPoints(r)
             THEN UNCHANGED <<shouldContinue, lastYield, forwarded, lastForwarded>>
             ELSE IF processor # "none"
               THEN /\ \E c \in BOOLEAN :
                         /\ shouldContinue' = c
                         /\ lastYield' = IF c THEN "true" ELSE "false"
                    /\ Forward(i)
               ELSE /\ IF SinkWrites(r, processor, explain)
                         THEN Forward(i)
                         ELSE UNCHANGED <<forwarded, lastForwarded>>
                    /\ UNCHANGED <<shouldContinue, lastYield>>
  /\ UNCHANGED <<qpc, stmts, user, closeCount, ret, retMsg, panicked, config,
                 kind, shards, processor, explain, limited, limit, bufSize, nextIndex,
                 cur, err, errMsg, finished, closer, seriesYielded,
                 consumed, termErrs>>

(***************************************************************************)
(* processor.Close() makes the processor send END_STREAM to the task       *)
(* started by getShardsAndProcessor, which closes the sink and then        *)
(* signals seriesClosed; runQuerySpec returns on that signal.              *)
(***************************************************************************)
processorClose ==
  /\ UNCHANGED <<wvars, avars, ivars, pvars>>
  /\ qpc = "closing"
  /\ closer = "waiting"
  /\ closer' = "closed"
  /\ closeCount' = closeCount + 1
  /\ qpc' = "waitClosed"
  /\ UNCHANGED <<stmts, user, ret, retMsg, panicked, config, kind, shards,
                 processor, explain, limited, limit, bufSize, responses, nextIndex, cur,
                 shouldContinue, err, errMsg, finished, seriesYielded,
                 consumed, termErrs, forwarded, lastForwarded, lastYield>>

seriesClosed ==
  /\ UNCHANGED <<wvars, avars, ivars, pvars>>
  /\ qpc = "waitClosed"
  /\ closer = "closed"
  /\ closer' = "done"
  /\ qpc' = "specReturned"
  /\ UNCHANGED <<stmts, user, closeCount, ret, retMsg, panicked, config, kind,
                 shards, processor, explain, limited, limit, bufSize, responses,
                 nextIndex, cur, shouldContinue, err, errMsg, finished,
                 seriesYielded, consumed, termErrs, forwarded, lastForwarded, lastYield>>

(***************************************************************************)
(* runQuerySpec has returned err to RunQuery: a select returns it, a       *)
(* delete or a drop series returns it when it is not nil.                  *)
(***************************************************************************)
runQuerySpecReturn ==
  /\ UNCHANGED <<wvars, avars, ivars, pvars>>
  /\ qpc = "specReturned"
  /\ IF kind = "select" \/ err # "nil"
       THEN Return(err, errMsg) /\ UNCHANGED <<stmts, callVars>>
       ELSE Continue /\ NoCall
  /\ UNCHANGED <<user, closeCount, panicked, config>>

(***************************************************************************)
(* A call made by the consumer loop (YieldSeries, the sink's Write)        *)
(* panics: the deferred recoverFunc recovers and RunQuery returns its      *)
(* named result err, which is nil at that point; the err recoverFunc       *)
(* assigns is its own local.                                               *)
(***************************************************************************)
recoverFunc ==
  /\ UNCHANGED <<wvars, avars, ivars, pvars>>
  /\ qpc = "read"
  /\ responses[cur] # <<>>
  /\ ~Head(responses[cur])
  /\ panicked' = TRUE
  /\ Return("nil", 0)
  /\ UNCHANGED <<stmts, user, closeCount, config, callVars>>

(***************************************************************************)
(* runListSeriesQuery: the shards are queried one after the other.         *)
(***************************************************************************)
\* the shard list: the first 10 short-term, then the first 10 long-term shards
ListShards(short, long) ==
  Take(short, SHARDS_TO_QUERY_FOR_LIST_SERIES)
    \o Take(long, SHARDS_TO_QUERY_FOR_LIST_SERIES)

runListSeriesQuery ==
  /\ UNCHANGED <<wvars, avars, ivars, pvars>>
  /\ qpc = "loop"
  /\ stmts > 0
  /\ \E ns \in 0..MaxShards, nl \in 0..MaxShards, buf \in 1..MaxBuf :
       LET ss == ListShards([i \in 1..ns |-> "unasked"], [i \in 1..nl |-> "unasked"])
           n == Len(ss)
       IN /\ ns + nl <= MaxShards
          /\ kind' = "listseries"
          /\ shards' = ss
          /\ bufSize' = buf
          /\ responses' = [i \in 1..n |-> <<>>]
             /\ finished' = [i \in 1..n |-> FALSE]
          /\ cur' = 1
          /\ nextIndex' = Min(1, n)
          /\ IF n = 0
               THEN /\ closeCount' = closeCount + 1
                    /\ qpc' = "listReturned"
               ELSE /\ qpc' = "list"
                    /\ UNCHANGED closeCount
  /\ processor' = "none"
  /\ explain' = FALSE
  /\ limited' = FALSE
  /\ limit' = 1
  /\ shouldContinue' = FALSE
  /\ err' = "nil"
  /\ errMsg' = 0
  /\ closer' = "none"
  /\ seriesYielded' = {}
  /\ consumed' = {}
  /\ termErrs' = <<>>
  /\ forwarded' = {}
  /\ lastForwarded' = 0
  /\ lastYield' = "none"
  /\ UNCHANGED <<stmts, user, ret, retMsg, panicked, config>>

\* a terminal branch that records the first error message
RecordsFirstError(r) == r.err /\ err = "nil"

\* the terminal branch of runListSeriesQuery: whether the response's message
\* becomes the call's error (response.ErrorMessage != nil && err != nil)
ListRecordsError(r) == r.err /\ err # "nil"

ListRead ==
  /\ UNCHANGED <<wvars, avars, ivars, pvars>>
  /\ qpc = "list"
  /\ responses[cur] # <<>>
  /\ \E r \in IF Head(responses[cur]) THEN Terminals ELSE NonTerminals(kind) :
        /\ responses' = [responses EXCEPT ![cur] = Tail(@)]
        /\ IF IsTerminal(r)
             THEN /\ IF ListRecordsError(r)
                       THEN err' = "InvalidArgument" /\ errMsg' = cur
                       ELSE UNCHANGED <<err, errMsg>>
                  /\ termErrs' = IF r.err THEN Append(termErrs, cur) ELSE termErrs
                  /\ consumed' = consumed \cup {cur}
                  /\ cur' = cur + 1
                  /\ IF cur < NumShards
                       THEN /\ nextIndex' = cur + 1
                            /\ UNCHANGED <<qpc, closeCount>>
                       ELSE /\ closeCount' = closeCount + 1
                            /\ qpc' = "listReturned"
                            /\ UNCHANGED nextIndex
                  /\ UNCHANGED <<seriesYielded, forwarded, lastForwarded>>
             ELSE /\ IF \E j \in 1..Len(r.multi) : r.multi[j] \notin seriesYielded
                       THEN Forward(cur)
                       ELSE UNCHANGED <<forwarded, lastForwarded>>
                  /\ seriesYielded' =
                       seriesYielded \cup {r.multi[j] : j \in 1..Len(r.multi)}
                  /\ UNCHANGED <<qpc, closeCount, err, errMsg, termErrs,
                                 consumed, cur, nextIndex>>
  /\ UNCHANGED <<stmts, user, ret, retMsg, panicked, config, kind, shards,
                 processor, explain, limited,
                 limit, bufSize, shouldContinue, finished, closer,
                 lastYield>>

\* RunQuery drops the error runListSeriesQuery returns and goes on
runListSeriesQueryReturn ==
  /\ UNCHANGED <<wvars, avars, ivars, pvars>>
  /\ qpc = "listReturned"
  /\ Continue
  /\ NoCall
  /\ UNCHANGED <<user, closeCount, panicked, config>>

----------------------------------------------------------------------------
Next ==
  \/ RunQuery
  \/ RunQueryEnd
  \/ runDeleteQuery
  \/ runDropSeriesQuery
  \/ runQuery
  \/ DeleteContinuousQuery
  \/ CreateContinuousQuery
  \/ ListContinuousQueries
  \/ runListSeriesQuery
  \/ ShardQuery
  \/ ReadTerminal
  \/ ReadSeries
  \/ processorClose
  \/ seriesClosed
  \/ runQuerySpecReturn
  \/ recoverFunc
  \/ ListRead
  \/ runListSeriesQueryReturn

Spec == Init /\ [][Next]_vars

\* the producer task of shard i sends its terminal response
ShardTerminal(i) ==
  /\ ShardQuery
  /\ i <= NumShards
  /\ ~finished[i]
  /\ finished'[i]

\* Every started shard query eventually sends a terminal response; the
\* consumer, a running task, takes a response that is in the channel it
\* receives from; the sink does not block forever and the processor emits
\* its end-of-stream response after Close.
Fairness ==
  /\ \A i \in 1..MaxShards : SF_vars(ShardTerminal(i))
  /\ WF_vars(ReadTerminal)
  /\ WF_vars(ReadSeries)
  /\ WF_vars(processorClose)
  /\ WF_vars(seriesClosed)

SpecLive == Init /\ [][Next]_vars /\ Fairness

----------------------------------------------------------------------------
(***************************************************************************)
(* The write path.                                                         *)
(*                                                                         *)
(* A point is [id, timestamp]: id tells the points of one series apart,    *)
(* timestamp is the *int64 of the protocol, <<>> for nil and <<t>> for a   *)
(* pointer to t.                                                           *)
(***************************************************************************)
Timestamps == {<<>>} \cup {<<t>> : t \in TimeDomain}

\* the series a caller may pass: up to MaxPoints points
PointSeqs ==
  {[i \in 1..Len(ts) |-> [id |-> i, timestamp |-> ts[i]]] :
     ts \in SeqsUpTo(Timestamps, MaxPoints)}

Time(p) == p.timestamp[1]

\* CommitSeriesData, first loop: a nil timestamp becomes &now
FillTimestamps(pts, t) ==
  [i \in 1..Len(pts) |->
     IF pts[i].timestamp = <<>> THEN [pts[i] EXCEPT !.timestamp = <<t>>]
     ELSE pts[i]]

RECURSIVE InsertDescending(_, _)
\* p put into the descending sequence s, after the points of its timestamp
InsertDescending(s, p) ==
  IF s = <<>> THEN <<p>>
  ELSE IF Time(Head(s)) >= Time(p)
    THEN <<Head(s)>> \o InsertDescending(Tail(s), p)
    ELSE <<p>> \o s

RECURSIVE SortPointsTimeDescending(_)
\* series.SortPointsTimeDescending(): by timestamp, descending, stable
SortPointsTimeDescending(pts) ==
  IF pts = <<>> THEN <<>>
  ELSE InsertDescending(SortPointsTimeDescending(SubSeq(pts, 1, Len(pts) - 1)),
                        pts[Len(pts)])

\* self.write: the n-th shard Write of a commit fails when n = failWrite
write(pts, shard, n, failWrite) ==
  [shard |-> shard, points |-> pts, ok |-> n # failWrite]

\* the sweep compares each timestamp with the one it looked up last
NewTimestamp(t, lastTime) == t # lastTime

\* the sweep flushes the run when the shard of the new timestamp differs
ShardChanges(shardToWrite, shard) == shardToWrite # shard

\* a run that starts at the first point of the series
RunFromStart(pts, lastPointIndex, newIndex) == SubSeq(pts, 1, newIndex)

\* the run the sweep flushes: series.Points[lastPointIndex:newIndex]
Run(pts, lastPointIndex, newIndex) == SubSeq(pts, lastPointIndex + 1, newIndex)

\* the points as CommitSeriesData leaves them, timestamps filled, unsorted
FilledPoints(pts, t) == FillTimestamps(pts, t)

\* CommitSeriesData up to the sweep: timestamps filled, then the sort
SortedPoints(pts, t) == SortPointsTimeDescending(FillTimestamps(pts, t))

RECURSIVE Sweep(_, _)
(***************************************************************************)
(* CommitSeriesData, the loop over the sorted points.  in holds the        *)
(* sorted points, the catalog, and which lookup and which Write fail (0:   *)
(* none); st holds the loop's variables, i being Go's 0-based index.       *)
(* A lookup error or a Write error ends the loop with st.err set.          *)
(***************************************************************************)
Sweep(in, st) ==
  IF st.i = Len(in.pts) THEN st
  ELSE
    LET t == Time(in.pts[st.i + 1])
        shard == in.catalog[t]
        asked == st.lookups + 1
        looked == [st EXCEPT !.lookups = asked, !.lastTime = t, !.i = @ + 1]
    IN IF ~NewTimestamp(t, st.lastTime)
         THEN Sweep(in, [st EXCEPT !.i = @ + 1])
       ELSE IF asked = in.failLookup
         THEN [st EXCEPT !.lookups = asked, !.err = "LookupError",
                         !.fault = "lookup"]
       ELSE IF st.shardToWrite = 0
         THEN Sweep(in, [looked EXCEPT !.shardToWrite = shard])
       ELSE IF ShardChanges(st.shardToWrite, shard)
         THEN LET req == write(Run(in.pts, st.lastPointIndex, st.i),
                               st.shardToWrite, Len(st.reqs) + 1, in.failWrite)
              IN IF ~req.ok
                   THEN [st EXCEPT !.lookups = asked,
                                   !.reqs = Append(@, req),
                                   !.err = "WriteError",
                                   !.fault = "write"]
                   ELSE Sweep(in, [looked EXCEPT !.reqs = Append(@, req),
                                                 !.lastPointIndex = st.i,
                                                 !.shardToWrite = shard])
       ELSE Sweep(in, looked)

(***************************************************************************)
(* CommitSeriesData(db, series): the result holds the error returned       *)
(* ("panic" for a call of Write on the nil shard an ignored lookup error   *)
(* leaves), the Write requests issued, and series.Points at the end.       *)
(***************************************************************************)
CommitSeriesData(pts, t, cat, failLookup, failWrite) ==
  LET sorted == SortedPoints(pts, t)
      st == Sweep([pts |-> sorted, catalog |-> cat,
                   failLookup |-> failLookup, failWrite |-> failWrite],
                  [i |-> 0, lastTime |-> 0, lastPointIndex |-> 0,
                   shardToWrite |-> 0, reqs |-> <<>>, lookups |-> 0,
                   err |-> "nil", fault |-> "none"])
      tail == SubSeq(sorted, st.lastPointIndex + 1, Len(sorted))
      \* shardToWrite == nil after the loop: the lookup's error is dropped
      shard == IF st.shardToWrite # 0 THEN st.shardToWrite
               ELSE IF st.lookups + 1 = failLookup THEN 0
               ELSE cat[Time(tail[1])]
      req == write(tail, shard, Len(st.reqs) + 1, failWrite)
  IN IF st.err # "nil"
       THEN [err |-> st.err, fault |-> st.fault, requests |-> st.reqs,
             points |-> sorted]
     ELSE IF Len(tail) = 0
       THEN [err |-> "nil", fault |-> "none", requests |-> st.reqs,
             points |-> tail]
     ELSE IF shard = 0
       THEN [err |-> "panic", fault |-> "lookup", requests |-> st.reqs,
             points |-> tail]
     ELSE [err |-> IF req.ok THEN "nil" ELSE "WriteError",
           fault |-> IF req.ok THEN "none" ELSE "write",
           requests |-> Append(st.reqs, req), points |-> tail]

\* common.CurrentTime(): the clock reads a time after the epoch
CurrentTime == 1..MaxTime

\* the catalogs: a shard for each timestamp
Catalogs == [TimeDomain -> ShardIds]

(***************************************************************************)
(* A continuous query, as ProcessContinuousQueries reads it: groupBy is    *)
(* GetGroupByClause().Elems != nil; matches is the number of names of the  *)
(* FROM clause that match the incoming series name; perPoint tells whether *)
(* the target name holds a [field] placeholder.  What the code does not    *)
(* read of a query (the FROM clause of a query with GROUP BY, the target   *)
(* of a query no name of which matches) has one value.                     *)
(***************************************************************************)
ContinuousQueries ==
  {q \in [groupBy : BOOLEAN, matches : 0..MaxFrom, perPoint : BOOLEAN] :
     /\ q.groupBy => q.matches = 0
     /\ q.matches = 0 => ~q.perPoint}

\* clusterConfiguration.ParsedContinuousQueries[db]
ParsedContinuousQueries == SeqsUpTo(ContinuousQueries, MaxCQs)

\* InterpolateValuesAndCommit: the series handed to CommitSeriesData, in order
InterpolateValuesAndCommit(pts, perPoint) ==
  IF perPoint THEN [i \in 1..Len(pts) |-> <<pts[i]>>] ELSE <<pts>>

RECURSIVE FromClause(_, _, _)
\* the inner loop of ProcessContinuousQueries over fromClause.Names: one
\* call of InterpolateValuesAndCommit for each name that matches
FromClause(matches, pts, perPoint) ==
  IF matches = 0 THEN <<>>
  ELSE InterpolateValuesAndCommit(pts, perPoint)
       \o FromClause(matches - 1, pts, perPoint)

RECURSIVE QueryLoop(_, _)
\* the outer loop of ProcessContinuousQueries over the queries of the db
QueryLoop(cqs, pts) ==
  IF cqs = <<>> THEN <<>>
  ELSE (IF Head(cqs).groupBy THEN <<>>
        ELSE FromClause(Head(cqs).matches, pts, Head(cqs).perPoint))
       \o QueryLoop(Tail(cqs), pts)

\* the shards differ by identity only: the shard of the latest timestamp of
\* the series is the one called 1
FirstShard(cat, pts, t) ==
  LET filled == FillTimestamps(pts, t)
  IN \A i \in 1..Len(filled) :
       (\A j \in 1..Len(filled) : Time(filled[j]) <= Time(filled[i]))
         => cat[Time(filled[i])] = 1

\* the clock's reading is part of the call when a point lacks a timestamp
ClockUsed(pts, t) ==
  (\A i \in 1..Len(pts) : pts[i].timestamp # <<>>) => t = 1

\* the catalog answers for the timestamps of the series; the shards of the
\* timestamps no point has are not part of the call
AskedOf(cat, pts, t) ==
  LET filled == FillTimestamps(pts, t)
  IN \A u \in TimeDomain :
       (\A i \in 1..Len(filled) : Time(filled[i]) # u) => cat[u] = 1

(***************************************************************************)
(* WriteSeriesData up to the return of CommitSeriesData.  A commit ends at *)
(* the first call that fails, so at most one call per commit is made to    *)
(* fail: the failLookup-th catalog lookup or the failWrite-th shard Write. *)
(***************************************************************************)
WriteSeriesData ==
  /\ wpc = "idle"
  /\ \E a \in CheckAny(NoAnswers, <<"writeAccessDb">>), pts \in PointSeqs :
       /\ user' = a.user
       /\ written' = pts
       /\ IF ~a.ok
            THEN /\ wret' = "AuthorizationError"
                 /\ wpc' = "returned"
                 /\ points' = pts
                 /\ UNCHANGED <<now, catalog, requests, fault>>
          ELSE IF Len(pts) = 0
            THEN /\ wret' = "ZeroPoints"
                 /\ wpc' = "returned"
                 /\ points' = pts
                 /\ UNCHANGED <<now, catalog, requests, fault>>
          ELSE \E t \in CurrentTime :
               /\ ClockUsed(pts, t)
               /\ \E cat \in Catalogs :
                    /\ AskedOf(cat, pts, t)
                    /\ FirstShard(cat, pts, t)
                    /\ \E failLookup \in 0..MaxPoints,
                          failWrite \in 0..MaxPoints :
                         /\ failLookup = 0 \/ failWrite = 0
                         /\ \E c \in {CommitSeriesData(pts, t, cat, failLookup,
                                                       failWrite)} :
                              /\ now' = t
                              /\ catalog' = cat
                              /\ requests' = c.requests
                              /\ fault' = c.fault
                              /\ points' = c.points
                              /\ IF c.err # "nil"
                                   THEN wret' = c.err /\ wpc' = "returned"
                                   ELSE wpc' = "cq" /\ UNCHANGED wret
  /\ UNCHANGED <<cqRan, cqCommits, queries>>
  /\ UNCHANGED <<qpc, stmts, closeCount, ret, retMsg, panicked, config, callVars>>
  /\ UNCHANGED <<avars, ivars, pvars>>

\* if e := self.CommitSeriesData(db, newSeries); e != nil { log.Error(...) }:
\* the error is logged and nothing else, the caller goes on
Stops(failed) == FALSE

\* what CommitSeriesData returns for a series of the stage when its first
\* catalog lookup (what = "lookup") or its first shard Write (what = "write")
\* fails
FailureOf(series, what) ==
  CommitSeriesData(series, now, catalog,
                   IF what = "lookup" THEN 1 ELSE 0,
                   IF what = "write" THEN 1 ELSE 0).err

RECURSIVE CommitAll(_, _, _, _)
(***************************************************************************)
(* The commits of the continuous-query stage: each series handed to        *)
(* CommitSeriesData, with what its commit returned.  n is the position of  *)
(* the first series of the list; the commit at position failAt ends with   *)
(* e, the others return nil.  A commit that panics unwinds the stage.      *)
(***************************************************************************)
CommitAll(series, failAt, e, n) ==
  IF series = <<>> THEN <<>>
  ELSE IF n # failAt
    THEN <<[points |-> Head(series), err |-> "nil"]>>
         \o CommitAll(Tail(series), failAt, e, n + 1)
  ELSE <<[points |-> Head(series), err |-> e]>>
       \o (IF e = "panic" \/ Stops(e # "nil") THEN <<>>
           ELSE CommitAll(Tail(series), failAt, e, n + 1))

\* what WriteSeriesData ends with after the stage: nil, the error of the
\* primary commit, unless a commit of the stage panicked
StageResult(commits) ==
  IF \E i \in 1..Len(commits) : commits[i].err = "panic" THEN "panic"
  ELSE "nil"

(***************************************************************************)
(* WriteSeriesData from the call of ProcessContinuousQueries to its        *)
(* return: the continuous queries run on series, whose Points              *)
(* CommitSeriesData has left, and the errors of their commits are logged   *)
(* and dropped.                                                            *)
(***************************************************************************)
ProcessContinuousQueries ==
  /\ wpc = "cq"
  /\ \E cqs \in ParsedContinuousQueries :
       \E series \in {QueryLoop(cqs, points)} :
          \E failAt \in 0..Min(MaxFail, Len(series)),
             what \in {"lookup", "write"} :
            /\ failAt = 0 => what = "write"
            /\ \E e \in {IF failAt = 0 THEN "nil"
                         ELSE FailureOf(series[failAt], what)} :
                 \E commits \in {CommitAll(series, failAt, e, 1)} :
                   /\ queries' = cqs
                   /\ cqCommits' = commits
                   /\ wret' = StageResult(commits)
  /\ cqRan' = TRUE
  /\ wpc' = "returned"
  /\ UNCHANGED <<written, now, catalog, points, requests, fault>>
  /\ UNCHANGED <<qvars, avars, ivars, pvars>>

NextW ==
  \/ WriteSeriesData
  \/ ProcessContinuousQueries

\* the write path reads nothing of the query configuration
InitW == Init /\ config = 1

SpecWrite == InitW /\ [][NextW]_vars

----------------------------------------------------------------------------
(***************************************************************************)
(* Administrative operations: CreateDatabase, CreateDbUser, DropDatabase.  *)
(* CreateDatabase and CreateDbUser run in the caller's task: one action is *)
(* one call.  DropDatabase starts one goroutine per shard and waits for    *)
(* them on a sync.WaitGroup.                                               *)
(***************************************************************************)
\* a name is a string of at most MaxName characters
MaxName == 2

\* the classes of characters VALID_NAMES tells apart: "a" is a letter, a
\* digit or '_', "." is '.' or '-', "/" is any other character
NameChars == {"a", ".", "/"}

Names == SeqsUpTo(NameChars, MaxName)

\* VALID_NAMES: ^[a-zA-Z0-9_][a-zA-Z0-9\._-]*$
VALID_NAMES(name) ==
  /\ Len(name) >= 1
  /\ name[1] = "a"
  /\ \A i \in 2..Len(name) : name[i] \in {"a", "."}

isValidName(name) == VALID_NAMES(name)

\* a call on the Consensus or the catalog
Call(c) == [call |-> c, shard |-> 0, force |-> FALSE]

\* shard.DropDatabase(db, true) of shard i
ShardDrop(i) == [call |-> "shard.DropDatabase", shard |-> i, force |-> TRUE]

\* wait.Done() of the goroutine of shard i: its shard call has returned
ShardDropped(i) == [call |-> "wait.Done", shard |-> i, force |-> FALSE]

\* the outcomes of CreateDatabase(u, db, _): the user's answers, the error
\* returned and the calls made
CreateDatabaseResults(u, db) ==
  UNION {IF ~a.ok
           THEN {[user |-> a.user, err |-> "AuthorizationError", calls |-> <<>>]}
         ELSE IF ~isValidName(db)
           THEN {[user |-> a.user, err |-> "InvalidName", calls |-> <<>>]}
         ELSE {[user |-> a.user, err |-> e,
                calls |-> <<Call("raftServer.CreateDatabase")>>] :
                 e \in {"nil", "ConsensusError"}} :
         a \in CheckAny(u, <<"clusterAdmin">>)}

AdminReturn(op, db, username, e, calls) ==
  /\ aop' = op
  /\ areq' = [db |-> db, username |-> username]
  /\ aret' = e
  /\ acalls' = calls
  /\ apc' = "returned"
  /\ UNCHANGED drops

NotUser == <<qpc, stmts, closeCount, ret, retMsg, panicked, config, callVars>>

CreateDatabase ==
  /\ apc = "idle"
  /\ \E db \in Names : \E c \in CreateDatabaseResults(NoAnswers, db) :
       /\ user' = c.user
       /\ AdminReturn("CreateDatabase", db, <<>>, c.err, c.calls)
  /\ UNCHANGED <<NotUser, wvars, ivars, pvars>>

CreateDbUser ==
  /\ apc = "idle"
  /\ \E db \in Names, username \in Names :
       \E a \in CheckAny(NoAnswers, <<"clusterAdmin", "dbAdmin">>) :
         IF ~a.ok
           THEN /\ user' = a.user
                /\ AdminReturn("CreateDbUser", db, username,
                               "AuthorizationError", <<>>)
         ELSE IF username = <<>>
           THEN /\ user' = a.user
                /\ AdminReturn("CreateDbUser", db, username, "EmptyUsername", <<>>)
         ELSE IF ~isValidName(username)
           THEN /\ user' = a.user
                /\ AdminReturn("CreateDbUser", db, username, "InvalidName", <<>>)
         ELSE \/ /\ user' = a.user
                 \* cluster.HashPassword fails
                 /\ AdminReturn("CreateDbUser", db, username, "HashError", <<>>)
              \/ \E c \in CreateDatabaseResults(a.user, db) :
                   \* the error of CreateDatabase is ignored
                   /\ user' = c.user
                   /\ \/ AdminReturn("CreateDbUser", db, username,
                                     "AlreadyExists", c.calls)
                      \/ \E e \in {"nil", "ConsensusError"} :
                           AdminReturn("CreateDbUser", db, username, e,
                                       c.calls \o <<Call("raftServer.SaveDbUser")>>)
  /\ UNCHANGED <<NotUser, wvars, ivars, pvars>>

\* DropDatabase up to wait.Wait(): the checkpoint, the consensus drop and the
\* start of one goroutine per shard of GetAllShards()
DropDatabase ==
  /\ apc = "idle"
  /\ \E db \in {<<"a">>}, n \in 0..MaxShards,
        a \in CheckAny(NoAnswers, <<"clusterAdmin">>) :
       /\ user' = a.user
       /\ IF ~a.ok
            THEN AdminReturn("DropDatabase", db, <<>>, "AuthorizationError", <<>>)
          ELSE \/ AdminReturn("DropDatabase", db, <<>>, "CheckpointError",
                              <<Call("CreateCheckpoint")>>)
               \/ AdminReturn("DropDatabase", db, <<>>, "ConsensusError",
                              <<Call("CreateCheckpoint"),
                                Call("raftServer.DropDatabase")>>)
               \/ /\ aop' = "DropDatabase"
                  /\ areq' = [db |-> db, username |-> <<>>]
                  /\ acalls' = <<Call("CreateCheckpoint"),
                                 Call("raftServer.DropDatabase")>>
                  /\ drops' = [i \in 1..n |-> "ready"]
                  /\ apc' = "wait"
                  /\ UNCHANGED aret
  /\ UNCHANGED <<NotUser, wvars, ivars, pvars>>

\* the goroutine of shard i calls shard.DropDatabase(db, true)
shardDropDatabase(i) ==
  /\ apc = "wait"
  /\ drops[i] = "ready"
  /\ drops' = [drops EXCEPT ![i] = "running"]
  /\ acalls' = Append(acalls, ShardDrop(i))
  /\ UNCHANGED <<apc, aop, areq, aret>>
  /\ UNCHANGED <<qvars, wvars, ivars, pvars>>

\* the shard call of goroutine i returns and the goroutine calls wait.Done()
waitDone(i) ==
  /\ apc = "wait"
  /\ drops[i] = "running"
  /\ drops' = [drops EXCEPT ![i] = "done"]
  /\ acalls' = Append(acalls, ShardDropped(i))
  /\ UNCHANGED <<apc, aop, areq, aret>>
  /\ UNCHANGED <<qvars, wvars, ivars, pvars>>

\* a wait that lets the caller go once one goroutine is done
JoinedAny(gs) == \E i \in 1..Len(gs) : gs[i] = "done"

\* wait.Wait() returns: the counter of the WaitGroup is zero
Joined(gs) == \A i \in 1..Len(gs) : gs[i] = "done"

\* wait.Wait() has returned: DropDatabase returns nil
DropDatabaseReturn ==
  /\ apc = "wait"
  /\ Joined(drops)
  /\ aret' = "nil"
  /\ apc' = "returned"
  /\ UNCHANGED <<aop, areq, acalls, drops>>
  /\ UNCHANGED <<qvars, wvars, ivars, pvars>>

NextAdmin ==
  \/ CreateDatabase
  \/ CreateDbUser
  \/ DropDatabase
  \/ \E i \in 1..Len(drops) : shardDropDatabase(i)
  \/ \E i \in 1..Len(drops) : waitDone(i)
  \/ DropDatabaseReturn

SpecAdmin == InitW /\ [][NextAdmin]_vars

----------------------------------------------------------------------------
(***************************************************************************)
(* InterpolateValuesAndCommit with the names it builds.  A string is a     *)
(* sequence of characters; in a target name the text ":series_name" and a  *)
(* match of the regular expression \[.*?\] (a field name in brackets) are  *)
(* one item each.                                                          *)
(***************************************************************************)
\* a target name holds at most this many items
MaxTarget == 2

\* the field placeholders a target name may hold
FieldNames == {"[host]"}

TargetItems == {"e", ":series_name"} \cup FieldNames

Targets == SeqsUpTo(TargetItems, MaxTarget)

\* *series.Name of the incoming series
SeriesNames == {<<"r">>, <<"r", "/">>}

\* point.GetFieldValueAsString(fieldIndex) of the field "host"
FieldValues == {<<"a">>, <<"b">>, <<"a", " ", "/", "!">>}

\* *point.Timestamp
SequenceTimes == {0, 1}

InPoints ==
  SeqsUpTo([timestamp : SequenceTimes, host : FieldValues, sequenceNumber : {0}],
           MaxPoints)

RECURSIVE Replace(_, _)
\* strings.Replace(targetName, ":series_name", *series.Name, -1)
Replace(target, name) ==
  IF target = <<>> THEN <<>>
  ELSE (IF Head(target) = ":series_name" THEN name ELSE <<Head(target)>>)
       \o Replace(Tail(target), name)

\* r.MatchString(targetName)
MatchString(target) == \E i \in 1..Len(target) : target[i] \in FieldNames

RECURSIVE ReplaceAllStringFunc(_, _)
\* r.ReplaceAllStringFunc(targetName, ...): every match gives way to the
\* point's value of the field it names
ReplaceAllStringFunc(target, point) ==
  IF target = <<>> THEN <<>>
  ELSE (IF Head(target) \in FieldNames THEN point.host ELSE <<Head(target)>>)
       \o ReplaceAllStringFunc(Tail(target), point)

\* the characters replaceInvalidCharacters returns as they are
Letters == {"a", "b", "e", "r"}

replaceInvalidCharacters(c) ==
  IF c \in Letters THEN <<c>>
  ELSE IF c \in {"_", "-", "."} THEN <<c>>
  ELSE IF c = " " THEN <<"_">>
  ELSE IF c = "/" THEN <<".">>
  ELSE <<>>

RECURSIVE Map(_)
\* strings.Map(replaceInvalidCharacters, s)
Map(s) ==
  IF s = <<>> THEN <<>>
  ELSE replaceInvalidCharacters(Head(s)) \o Map(Tail(s))

\* a name that is used as it was put together
targetNameWithValues(target, point) == ReplaceAllStringFunc(target, point)

cleanedTargetName(target, point) == Map(ReplaceAllStringFunc(target, point))

\* a key that leaves the timestamp out
nameKey(target, point) == <<target>>

sequenceKey(target, point) == <<target, point.timestamp>>

\* sequenceMap[sequenceKey{targetName, *point.Timestamp}] once the k-th point
\* has been counted
sequenceMap(target, pts, k) ==
  Cardinality({j \in 1..k :
                 sequenceKey(target, pts[j]) = sequenceKey(target, pts[k])})

\* the k-th point as it is committed
Numbered(target, pts, k, assign) ==
  IF assign
    THEN [pts[k] EXCEPT !.sequenceNumber = sequenceMap(target, pts, k)]
    ELSE pts[k]

\* the series handed to CommitSeriesData, in order
NewSeries(targetName, pts, assign) ==
  IF MatchString(targetName)
    THEN [k \in 1..Len(pts) |->
            [name |-> cleanedTargetName(targetName, pts[k]),
             points |-> <<Numbered(targetName, pts, k, assign)>>]]
    ELSE <<[name |-> targetName,
            points |-> [k \in 1..Len(pts) |->
                          Numbered(targetName, pts, k, assign)]]>>

\* one call of InterpolateValuesAndCommit(db, series, targetName,
\* assignSequenceNumbers)
Interpolate ==
  /\ ipc = "idle"
  /\ \E target \in Targets, name \in SeriesNames, pts \in InPoints,
        assign \in BOOLEAN :
       /\ iargs' = [target |-> target, name |-> name, points |-> pts,
                    assignSequenceNumbers |-> assign]
       /\ icommits' = NewSeries(Replace(target, name), pts, assign)
  /\ ipc' = "returned"
  /\ UNCHANGED <<qvars, wvars, avars, pvars>>

NextInterpolate == Interpolate

SpecInterpolate == InitW /\ [][NextInterpolate]_vars

----------------------------------------------------------------------------
(***************************************************************************)
(* The body of the consumer loop of runQuerySpec on the responses of one   *)
(* shard, with the content of each response: the type, and the series      *)
(* (none, without points, with points).                                    *)
(***************************************************************************)
\* the loop reads at most this many non-terminal responses from one channel
MaxStream == 2

\* len(response.Series.Points), and -1 when response.Series is nil
SeriesSizes == {-1, 0, 1}

StreamResponses ==
  {Response(t, n, FALSE, <<>>) :
     t \in {queryResponse, explainQueryResponse}, n \in SeriesSizes}

\* runQuerySpec reaches its consumer loop for a call with or without
\* processor, of a spec that is an explain query or not
ConsumerLoop ==
  /\ ppc = "idle"
  /\ \E proc \in {"none", "engine"}, expl \in BOOLEAN :
       pspec' = [processor |-> proc, explain |-> expl]
  /\ ppc' = "read"
  /\ UNCHANGED <<received, sinkWrites>>
  /\ UNCHANGED <<qvars, wvars, avars, ivars>>

\* response := <-responseChan, response not terminal
Receive ==
  /\ ppc = "read"
  /\ Len(received) < MaxStream
  /\ \E r \in StreamResponses :
       /\ received' = Append(received, r)
       /\ sinkWrites' = IF SinkWrites(r, pspec.processor, pspec.explain)
                          THEN Append(sinkWrites, r)
                          ELSE sinkWrites
  /\ UNCHANGED <<ppc, pspec>>
  /\ UNCHANGED <<qvars, wvars, avars, ivars>>

NextPipeline ==
  \/ ConsumerLoop
  \/ Receive

SpecPipeline == InitW /\ [][NextPipeline]_vars

----------------------------------------------------------------------------
(***************************************************************************)
(* Claims about the query path, checked under Spec.                        *)
(***************************************************************************)
\* the statement being run goes through runQuerySpec
InQuerySpec == kind \in {"select", "delete", "dropseries"}

\* the shard queries started whose terminal response was not consumed yet
InFlight == {i \in 1..NumShards : Started(i) /\ i \notin consumed}

\* the limit the claims speak of: ConcurrentShardQueryLimit, or 1 when a
\* selected shard does not aggregate locally
EffectiveLimit ==
  IF \E i \in 1..NumShards : shards[i] = "no" THEN 1 ELSE config

\* runQuerySpec is past its consumer loop
LoopOver == qpc \in {"closing", "waitClosed", "specReturned"}

\* C1: when RunQuery has returned, whatever the statements and the outcome,
\* the caller's sink has been closed exactly once.
C1_SinkClosedOnce == qpc = "returned" => closeCount = 1

\* C2: the series the consumer loop passes on are in shard list order: the
\* shard of the latest series passed on is the highest passed on so far, so
\* no series of shard i follows a series of a shard j > i.
C2_ShardOrder ==
  InQuerySpec => \A j \in forwarded : j <= lastForwarded

\* two shards were being queried at once and a series of each was passed on
C2_Witness ==
  /\ InQuerySpec
  /\ limit >= 2
  /\ {1, 2} \subseteq forwarded
  /\ lastForwarded = 2

\* C3: at most EffectiveLimit shard queries are started and not yet consumed.
C3_ConcurrencyLimit ==
  InQuerySpec => Cardinality(InFlight) <= EffectiveLimit

\* shard 3 was started when a terminal was read, and the limit 2 is reached
C3_Witness ==
  /\ InQuerySpec
  /\ EffectiveLimit = 2
  /\ consumed # {}
  /\ Cardinality(InFlight) = 2

\* C4: with no processor every selected shard has been queried and read to
\* its terminal response when runQuerySpec returns.
C4_AllShardsQueried ==
  (InQuerySpec /\ processor = "none" /\ qpc = "specReturned")
    => consumed = 1..NumShards

\* C5: while the most recent YieldSeries returned false, reading a terminal
\* response starts no shard query; and when the consumer loop ends, every
\* shard query that was started has been read up to its terminal response.
C5_StopScheduling ==
  [][/\ (qpc = "read" /\ lastYield = "false") => nextIndex' = nextIndex
     /\ (qpc = "read" /\ LoopOver') =>
          \A i \in 1..NumShards : Started(i)' => i \in consumed']_vars

\* YieldSeries returned false while shard 2 was already being queried: shard
\* 2 was drained and shard 3 was never queried
C5_Witness ==
  /\ qpc = "specReturned"
  /\ lastYield = "false"
  /\ NumShards = 3
  /\ nextIndex = 2
  /\ consumed = {1, 2}

\* the error runQuerySpec holds is the one the terminals consumed so far call
\* for: nil when none carried a message, else InvalidArgument with the message
\* of the first that did
FirstTerminalError ==
  IF termErrs = <<>>
    THEN err = "nil"
    ELSE err = "InvalidArgument" /\ errMsg = Head(termErrs)

\* C6 as stated: whenever runQuerySpec returns, its error is that of the
\* first consumed terminal with a message, and nil when there was none.
C6_Original == (InQuerySpec /\ qpc = "specReturned") => FirstTerminalError

\* C6 amended: the same, for the calls in which getShardsAndProcessor did not
\* fail; and the consumer never reads a shard again after its terminal.
C6_FirstError ==
  /\ (InQuerySpec /\ qpc = "specReturned" /\ err # "EngineError")
       => FirstTerminalError
  /\ (InQuerySpec /\ qpc = "read") => cur \notin consumed

\* two terminals carried a message, the first became the error
C6_Witness ==
  /\ InQuerySpec
  /\ qpc = "specReturned"
  /\ Len(termErrs) >= 2
  /\ err = "InvalidArgument"
  /\ errMsg = Head(termErrs)

----------------------------------------------------------------------------
(***************************************************************************)
(* Claims about the write path.                                            *)
(***************************************************************************)
\* the write call has returned without error
WriteSucceeded == wpc = "returned" /\ wret = "nil"

\* the input points as the commit sees them: a missing timestamp is the
\* current time
Stamped == [i \in 1..Len(written) |->
              IF written[i].timestamp = <<>>
                THEN [written[i] EXCEPT !.timestamp = <<now>>]
                ELSE written[i]]

RECURSIVE Carried(_)
\* the points of the requests, one after the other
Carried(reqs) ==
  IF reqs = <<>> THEN <<>> ELSE Head(reqs).points \o Carried(Tail(reqs))

Range(f) == {f[i] : i \in DOMAIN f}

\* C7: a write call of N >= 1 points that returns without error has issued
\* shard Write requests whose points together are exactly the N input
\* points, none lost and none sent twice.
C7_PointsConserved ==
  (WriteSucceeded /\ Len(written) >= 1) =>
    /\ Len(Carried(requests)) = Len(written)
    /\ Range(Carried(requests)) = Range(Stamped)

C7_Witness ==
  /\ WriteSucceeded
  /\ Len(written) = 3
  /\ Len(requests) = 2
  /\ \E i \in 1..3 : written[i].timestamp = <<>>

\* C8: in any write call, two points of the series with equal timestamps
\* (missing timestamps being the current time) are carried by one and the
\* same shard Write request.
C8_SameTimestampSameRequest ==
  wpc \in {"cq", "returned"} =>
    \A r1, r2 \in 1..Len(requests) :
      \A i \in 1..Len(requests[r1].points), j \in 1..Len(requests[r2].points) :
        Time(requests[r1].points[i]) = Time(requests[r2].points[j]) => r1 = r2

C8_Witness ==
  /\ WriteSucceeded
  /\ Len(requests) = 2
  /\ Len(written) = 3
  /\ written[1].timestamp = written[3].timestamp
  /\ written[1].timestamp # written[2].timestamp
  /\ \E r \in 1..2 : Len(requests[r].points) = 2

\* C9: in a successful write call, whatever the timestamps (zero and
\* negative ones included), every point is carried by a request to the
\* shard the catalog returns for the point's timestamp.
C9_RoutedByCatalog ==
  WriteSucceeded =>
    \A r \in 1..Len(requests) : \A i \in 1..Len(requests[r].points) :
      requests[r].shard = catalog[Time(requests[r].points[i])]

\* C10: when a shard Write or a catalog lookup fails during a write call,
\* the call returns that error, the failed call is the last the commit
\* makes, the continuous queries do not run, and the requests accepted
\* before stay accepted.
C10_FirstErrorAborts ==
  (wpc = "returned" /\ fault # "none") =>
    /\ wret = (IF fault = "lookup" THEN "LookupError" ELSE "WriteError")
    /\ \A r \in 1..Len(requests) : ~requests[r].ok => r = Len(requests)
    /\ fault = "lookup" => \A r \in 1..Len(requests) : requests[r].ok
    /\ ~cqRan

RECURSIVE Expected(_)
\* the number of commits the queries call for: none for a query with GROUP
\* BY, else for each matching name one per point with a [field] target, one
\* otherwise
Expected(cqs) ==
  IF cqs = <<>> THEN 0
  ELSE (IF Head(cqs).groupBy THEN 0
        ELSE Head(cqs).matches
               * (IF Head(cqs).perPoint THEN Len(points) ELSE 1))
       + Expected(Tail(cqs))

\* C11: when the primary commit succeeded, WriteSeriesData returns nil
\* whatever the continuous-query commits did, and every commit the queries
\* call for was attempted, those after a failed one included.
C11_CQFailuresDropped ==
  (wpc = "returned" /\ cqRan) =>
    /\ wret = "nil"
    /\ Len(cqCommits) = Expected(queries)

\* the first commit of the stage failed, the second was made all the same
C11_Witness ==
  /\ wpc = "returned"
  /\ cqRan
  /\ Len(cqCommits) >= 2
  /\ cqCommits[1].err \notin {"nil", "panic"}
  /\ cqCommits[2].err = "nil"
  /\ wret = "nil"

\* C12: a RunQuery call in which a panic occurred returns a non-nil
\* Internal error ("Internal Error"); the panic does not reach the caller.
C12_PanicReported ==
  (qpc = "returned" /\ panicked) => ret = "InternalError"

\* C14: a write is denied with an Authorization error exactly when the user
\* answered no to all of IsClusterAdmin, IsDbAdmin(db) and
\* HasWriteAccess(series name); an answer the call never asked for is one
\* the decision did not depend on.
C14_WriteAuthorization ==
  wpc # "idle" =>
    (wret = "AuthorizationError"
       <=> /\ user.clusterAdmin = "no"
           /\ user.dbAdmin = "no"
           /\ user.writeAccess = "no")

----------------------------------------------------------------------------
(***************************************************************************)
(* Claims about the administrative operations, checked under SpecAdmin.    *)
(***************************************************************************)
\* the caller lacks the capability the operation requires
LacksCapability ==
  \/ aop \in {"CreateDatabase", "DropDatabase"} /\ user.clusterAdmin = "no"
  \/ aop = "CreateDbUser" /\ user.clusterAdmin = "no" /\ user.dbAdmin = "no"

\* an argument of the operation is invalid
InvalidArgument ==
  \/ aop \in {"CreateDatabase", "CreateDbUser"} /\ ~isValidName(areq.db)
  \/ aop = "CreateDbUser" /\ ~isValidName(areq.username)

\* C13: an operation whose caller lacks the required capability, or one of
\* whose arguments is invalid (an invalid or empty user name, an invalid
\* database name), returns an error and has made no Consensus, catalog or
\* shard call.
C13_FailFast ==
  (apc = "returned" /\ (LacksCapability \/ InvalidArgument)) =>
    /\ aret # "nil"
    /\ acalls = <<>>

\* the positions of call c in the calls of the operation
Positions(c) == {k \in 1..Len(acalls) : acalls[k] = c}

\* the calls made on shards
ShardCalls == {k \in 1..Len(acalls) : acalls[k].call = "shard.DropDatabase"}

\* C18: DropDatabase by a cluster admin takes the catalog checkpoint, then
\* applies the drop through the Consensus, then calls DropDatabase(db, true)
\* once on every shard; it returns nil only after every one of these shard
\* calls has returned, and when the checkpoint or the consensus drop fails
\* it returns that error and no shard call is made.
C18_DropDatabase ==
  (aop = "DropDatabase" /\ user.clusterAdmin = "yes") =>
    /\ acalls # <<>> /\ acalls[1] = Call("CreateCheckpoint")
    /\ Len(acalls) >= 2 => acalls[2] = Call("raftServer.DropDatabase")
    /\ \A k \in ShardCalls : k > 2 /\ acalls[k].force
    /\ \A i \in 1..Len(drops) : Cardinality(Positions(ShardDrop(i))) <= 1
    /\ apc = "returned" =>
         \/ aret = "CheckpointError" /\ Len(acalls) = 1
         \/ aret = "ConsensusError" /\ Len(acalls) = 2
         \/ /\ aret = "nil"
            /\ \A i \in 1..Len(drops) :
                 \E k \in Positions(ShardDrop(i)) :
                   \E d \in Positions(ShardDropped(i)) : k < d

\* DropDatabase returned nil after the calls on two shards overlapped: the
\* call on shard 2 started before the call on shard 1 had returned
C18_Witness ==
  /\ aop = "DropDatabase"
  /\ apc = "returned"
  /\ aret = "nil"
  /\ Len(drops) >= 2
  /\ \E k1 \in Positions(ShardDrop(1)), k2 \in Positions(ShardDrop(2)),
        d1 \in Positions(ShardDropped(1)) : k1 < k2 /\ k2 < d1

----------------------------------------------------------------------------
(***************************************************************************)
(* Claims about InterpolateValuesAndCommit, checked under SpecInterpolate, *)
(* and about ProcessContinuousQueries, checked under SpecWrite.            *)
(***************************************************************************)
RECURSIVE Substituted(_, _, _)
\* the target with ":series_name" replaced by the series name and every
\* field placeholder by the value
Substituted(target, name, value) ==
  IF target = <<>> THEN <<>>
  ELSE (IF Head(target) = ":series_name" THEN name
        ELSE IF Head(target) \in FieldNames THEN value
        ELSE <<Head(target)>>)
       \o Substituted(Tail(target), name, value)

RECURSIVE Remapped(_)
\* letters, digits, '_', '-' and '.' pass, a space becomes '_', a '/'
\* becomes '.', any other character is dropped
Remapped(s) ==
  IF s = <<>> THEN <<>>
  ELSE (IF Head(s) = " " THEN <<"_">>
        ELSE IF Head(s) = "/" THEN <<".">>
        ELSE IF Head(s) = "!" THEN <<>>
        ELSE <<Head(s)>>)
       \o Remapped(Tail(s))

\* the call had a target with a field placeholder
FieldTarget ==
  /\ ipc = "returned"
  /\ \E i \in 1..Len(iargs.target) : iargs.target[i] \in FieldNames

\* one commit per point, in point order, each of the one point
OnePerPoint ==
  /\ Len(icommits) = Len(iargs.points)
  /\ \A k \in 1..Len(icommits) :
       /\ Len(icommits[k].points) = 1
       /\ icommits[k].points[1].timestamp = iargs.points[k].timestamp
       /\ icommits[k].points[1].host = iargs.points[k].host

\* C15 as stated: with a field placeholder in the target and n points, n
\* commits are issued, one single-point series per point in point order,
\* each named by the target with the placeholder replaced by the point's
\* value of the field.
C15_Original ==
  FieldTarget =>
    /\ OnePerPoint
    /\ \A k \in 1..Len(icommits) :
         icommits[k].name =
           Substituted(iargs.target, iargs.name, iargs.points[k].host)

\* C15: with a field placeholder in the target and n points, n commits are
\* issued, one single-point series per point in point order, each named by
\* the target with the placeholder replaced by the point's value of the
\* field and the characters of the result remapped.
C15_PerPointCommits ==
  FieldTarget =>
    /\ OnePerPoint
    /\ \A k \in 1..Len(icommits) :
         icommits[k].name =
           Remapped(Substituted(iargs.target, iargs.name, iargs.points[k].host))

\* target e[host], three points with host a, b, a: commits to ea, eb, ea
C15_Witness ==
  /\ ipc = "returned"
  /\ iargs.target = <<"e", "[host]">>
  /\ Len(iargs.points) = 3
  /\ iargs.points[1].host = <<"a">>
  /\ iargs.points[2].host = <<"b">>
  /\ iargs.points[3].host = <<"a">>
  /\ Len(icommits) = 3
  /\ icommits[1].name = <<"e", "a">>
  /\ icommits[2].name = <<"e", "b">>
  /\ icommits[3].name = <<"e", "a">>

RECURSIVE Matching(_)
\* the queries without GROUP BY that have a FROM entry matching the series
Matching(cqs) ==
  IF cqs = <<>> THEN 0
  ELSE (IF ~Head(cqs).groupBy /\ Head(cqs).matches >= 1 THEN 1 ELSE 0)
       + Matching(Tail(cqs))

\* C16: when the targets of the continuous queries hold no field
\* placeholder, the stage commits exactly one series for each query without
\* GROUP BY that has a FROM entry matching the series name, however many of
\* its entries match, and none for the other queries.
C16_OneSeriesPerQuery ==
  (/\ wpc = "returned"
   /\ cqRan
   /\ wret = "nil"
   /\ \A q \in 1..Len(queries) : ~queries[q].perPoint) =>
    Len(cqCommits) = Matching(queries)

RECURSIVE Flat(_)
\* the points of the commits, in the order they were processed
Flat(commits) ==
  IF commits = <<>> THEN <<>>
  ELSE Head(commits).points \o Flat(Tail(commits))

\* the points processed before the k-th that are in its bucket: the target
\* name is the one of the call, so a bucket is a timestamp
Before(ps, k) == {j \in 1..(k - 1) : ps[j].timestamp = ps[k].timestamp}

Latest(S) == CHOOSE j \in S : \A i \in S : i <= j

\* C17: in a call with sequence-number assignment, the first point of each
\* (target name of the call, timestamp) bucket gets sequence number 1 and
\* each later point of the bucket the number of the previous one plus one,
\* whatever the other buckets hold.
C17_SequenceNumbers ==
  (ipc = "returned" /\ iargs.assignSequenceNumbers) =>
    \E ps \in {Flat(icommits)} :
      /\ Len(ps) = Len(iargs.points)
      /\ \A k \in 1..Len(ps) :
           /\ ps[k].timestamp = iargs.points[k].timestamp
           /\ ps[k].sequenceNumber =
                IF Before(ps, k) = {} THEN 1
                ELSE ps[Latest(Before(ps, k))].sequenceNumber + 1

\* three points at timestamps 0, 1, 0 were numbered 1, 1, 2
C17_Witness ==
  /\ ipc = "returned"
  /\ iargs.assignSequenceNumbers
  /\ Len(iargs.points) = 3
  /\ \E ps \in {Flat(icommits)} :
       /\ Len(ps) = 3
       /\ ps[1].timestamp = 0 /\ ps[1].sequenceNumber = 1
       /\ ps[2].timestamp = 1 /\ ps[2].sequenceNumber = 1
       /\ ps[3].timestamp = 0 /\ ps[3].sequenceNumber = 2

----------------------------------------------------------------------------
(***************************************************************************)
(* Claims about getShardsAndProcessor, checked under Spec.                 *)
(***************************************************************************)
\* getShardsAndProcessor has returned without error for the running statement
Planned == InQuerySpec /\ err # "EngineError"

\* every selected shard answered true to ShouldAggregateLocally
AllLocal == \A i \in 1..NumShards : shards[i] = "yes"

\* C19 as stated: when every selected shard aggregates locally, no processor
\* is created, whatever the LIMIT of the query.
C19_Original ==
  (Planned /\ AllLocal) => processor = "none"

\* C19: when every selected shard aggregates locally, a select with a
\* positive LIMIT gets the limit-aware passthrough and every other query no
\* processor; without a processor no closing task exists and the consumer
\* loop itself writes to the sink.
C19_LocalAggregation ==
  (Planned /\ AllLocal) =>
    /\ processor = IF kind = "select" /\ limited THEN "limit" ELSE "none"
    /\ processor = "none" => closer = "none"

\* a select without LIMIT over two or more shards that all aggregate locally
\* runs without processor and its consumer loop has written to the sink
C19_Witness ==
  /\ Planned
  /\ AllLocal
  /\ NumShards >= 2
  /\ kind = "select"
  /\ ~limited
  /\ processor = "none"
  /\ forwarded # {}

\* C20 as stated: a delete or a drop series never gets a processor, whatever
\* the selected shards answer to ShouldAggregateLocally.
C20_Original ==
  (Planned /\ kind # "select") => processor = "none"

\* C20: a delete or a drop series gets no processor when every selected
\* shard aggregates locally and the plain passthrough when one does not;
\* it never gets the engine or the limit-aware passthrough.
C20_NonSelect ==
  (Planned /\ kind # "select") =>
    processor = IF AllLocal THEN "none" ELSE "passthrough"

\* a delete runs with the plain passthrough: its second shard does not
\* aggregate locally
C20_Witness ==
  /\ Planned
  /\ kind = "delete"
  /\ NumShards >= 2
  /\ shards[1] = "yes"
  /\ shards[2] = "no"
  /\ processor = "passthrough"

----------------------------------------------------------------------------
(***************************************************************************)
(* Claims about the response pipeline, checked under SpecPipeline.         *)
(***************************************************************************)
\* the response carries a series with at least one point
NonEmpty(r) == r.pts >= 1

\* C21 as stated: the responses the claim has written to the sink
ClaimedWritten(r) ==
  /\ NonEmpty(r)
  /\ \/ r.type = explainQueryResponse /\ pspec.explain
     \/ r.type = queryResponse /\ ~pspec.explain

\* the responses written to the sink: every non-empty one but a QUERY
\* response of an explain query
ActuallyWritten(r) ==
  /\ NonEmpty(r)
  /\ \/ r.type = explainQueryResponse
     \/ r.type = queryResponse /\ ~pspec.explain

\* C21 as stated: without a processor the loop writes to the sink exactly
\* the non-empty EXPLAIN_QUERY responses of an explain query and the
\* non-empty QUERY responses of a query that is no explain; an EXPLAIN_QUERY
\* response of a query that is no explain is dropped.
C21_Original ==
  (ppc = "read" /\ pspec.processor = "none") =>
    sinkWrites = SelectSeq(received, ClaimedWritten)

\* C21: without a processor the loop writes to the sink, in the order read,
\* exactly the non-empty responses that are not a QUERY response of an
\* explain query: an EXPLAIN_QUERY response is written whether or not the
\* query is an explain, and a response without series or without points is
\* never written.
C21_SinkFilter ==
  (ppc = "read" /\ pspec.processor = "none") =>
    sinkWrites = SelectSeq(received, ActuallyWritten)

\* an explain query without processor: of a QUERY and an EXPLAIN_QUERY
\* response, both with points, only the second was written
C21_Witness ==
  /\ ppc = "read"
  /\ pspec.processor = "none"
  /\ pspec.explain
  /\ Len(received) = 2
  /\ received[1].type = queryResponse /\ received[1].pts = 1
  /\ received[2].type = explainQueryResponse /\ received[2].pts = 1
  /\ sinkWrites = <<received[2]>>

----------------------------------------------------------------------------
(***************************************************************************)
(* Claims about the list-series path, checked under Spec.                  *)
(***************************************************************************)
\* runListSeriesQuery is running or has just returned
InListSeries == kind = "listseries"

\* the step is the last of runListSeriesQuery
ListSeriesEnds == qpc # "listReturned" /\ qpc' = "listReturned"

\* C22: the error of runListSeriesQuery stays nil whatever the shards send,
\* terminal responses with an error message included; after such a terminal
\* the next shard is still queried, so that at the return every shard of
\* the list has been queried and read to its terminal; and the call ends
\* with one Close of the sink.
C22_ListSeriesNoError ==
  /\ [](InListSeries =>
         /\ err = "nil"
         /\ qpc = "listReturned" =>
              /\ consumed = 1..NumShards
              /\ \A i \in 1..NumShards : finished[i])
  /\ [][ListSeriesEnds => closeCount' = closeCount + 1]_vars

\* a list over two or more shards returned after the first shard had ended
\* its stream with an error message
C22_Witness ==
  /\ InListSeries
  /\ qpc = "listReturned"
  /\ NumShards >= 2
  /\ termErrs # <<>>
  /\ termErrs[1] = 1
  /\ consumed = 1..NumShards
  /\ err = "nil"

----------------------------------------------------------------------------
(***************************************************************************)
(* Claims about the scheduling and the termination of runQuerySpec,        *)
(* checked under Spec.                                                     *)
(***************************************************************************)
\* C23: in a call with a processor whose YieldSeries has not returned false
\* (its most recent call, if there was any, returned true), every selected
\* shard has been queried once the consumer loop is over, also when a shard
\* ended its stream without a non-empty series, so that YieldSeries was not
\* called while it was read.
C23_EveryShardQueried ==
  (/\ Planned
   /\ processor # "none"
   /\ LoopOver
   /\ lastYield # "false") =>
    \A i \in 1..NumShards : Started(i)

----------------------------------------------------------------------------
(***************************************************************************)
(* Claims about the series the continuous-query stage receives, checked    *)
(* under SpecWrite.                                                        *)
(***************************************************************************)
\* C24: after a successful commit the series handed to the continuous-query
\* stage holds all the points of the written series, also when the commit
\* split them into requests for several shards.
C24_StageReceivesAllPoints ==
  (wpc = "cq" \/ (wpc = "returned" /\ cqRan)) =>
    /\ Len(points) = Len(written)
    /\ \A i \in 1..Len(written) :
         \E j \in 1..Len(points) : points[j].id = written[i].id

\* runQuerySpec is in or past its consumer loop and has not returned
Running == qpc \in {"read", "closing", "waitClosed"}

\* the producer task of shard i is not blocked: it was never started, or it
\* has sent its terminal response and the consumer has taken all it sent
ProducerDone(i) == Started(i) => (finished[i] /\ responses[i] = <<>>)

\* the task that closes the sink for a processor is not blocked: it was
\* never started, or it has closed the sink and its signal was received
CloserDone == closer \in {"none", "done"}

\* C25: every runQuerySpec call that reached its consumer loop returns
\* (unless a panic unwinds it), and when it has returned neither a shard
\* producer task nor the sink-closing task of the call is blocked on a
\* channel.
C25_Terminates ==
  /\ Running ~> (qpc = "specReturned" \/ panicked)
  /\ [](qpc = "specReturned" =>
         /\ \A i \in 1..NumShards : ProducerDone(i)
         /\ CloserDone)

\* a call with a processor over three shards, started one after the other,
\* has returned with all its tasks done
C25_Witness ==
  /\ qpc = "specReturned"
  /\ InQuerySpec
  /\ processor # "none"
  /\ NumShards = 3
  /\ limit = 1
  /\ consumed = {1, 2, 3}
  /\ closer = "done"

====
